---------------------------- MODULE Spec2Model ----------------------------
(***************************************************************************)
(* Save Versions Redirector (ray34g/save_versions_redirector).             *)
(*                                                                         *)
(* A Blender add-on: after every save, the backup Blender leaves beside    *)
(* the .blend file (<file>.blend1) is copied into a rolling family of slot *)
(* files (<prefix>_latest.blend, <prefix>_prev1.blend, ...) in a versions  *)
(* directory.  The save_post handler runs on Blender's main thread; every  *)
(* copy runs in a daemon thread of its own; release 1.3.0 removes the      *)
(* backup from a timer, release 1.1.0 removes it in the handler itself.    *)
(*                                                                         *)
(* Both releases in the repository are modelled (variable addon):          *)
(*   "v1_3"  src/__init__.py                                               *)
(*   "v1_1"  src/save_versions_redirector.py                               *)
(*                                                                         *)
(* Time is in seconds.  A file is a record [content, mtime]; content is    *)
(* the number of the save that produced the bytes.                         *)
(***************************************************************************)
EXTENDS Integers, Sequences, FiniteSets, TLC

\* ------------------------------------------------------------------ bounds
\* Number of save events of one run.
MaxEvents == 2
\* Number of minutes the clock may advance.
MaxTicks == 1
\* Largest value of Blender's "Save Versions" preference.
MaxSaveVersion == 3
\* Copy threads of earlier events that may still run when a save event fires.
MaxPending == 1
\* Highest slot index of the directories _rotate is run on in isolation.
RotTop == 5
\* Threshold settings (minutes) the preferences are drawn from.
MinuteChoices == {0, 1}
\* Highest "Save Versions" value _thresholds and _find_slot are run on in
\* isolation: beyond the five configured slots.
AllocTop == 7
\* Minutes the clock shows when _find_slot is run in isolation.
AllocClock == 6
\* Threshold settings (minutes) of those runs.
AllocMinutes == {0, 1, 2}
\* Minutes by which the files of the slots beyond 5 are older in those runs.
AllocLead == 2

\* Highest file index in the directory: one beyond every configurable max_v.
TopIdx == MaxSaveVersion + 1

\* ------------------------------------------------------------------- state
VARIABLES
    addon,          \* which release is installed
    prefs,          \* add-on preferences: prev1_minutes .. prev4_minutes
    save_version,   \* bpy.context.preferences.filepaths.save_version
    clock,          \* time.time()
    root_exists,    \* the versions directory exists
    dir,            \* the versions directory: file name -> file
    proj,           \* the project directory: "fp" (the .blend), "fp1" (its backup)
    pc,             \* position of the main thread inside save_versions_post
    fp,             \* local: bpy.data.filepath
    max_v,          \* local
    now,            \* local
    slot,           \* local: slot chosen by _find_slot (0: None)
    need_rot,       \* local
    rot_v,          \* local: loop variable of _rotate
    tasks,          \* daemon threads started by _copy_async
    timers,         \* bpy.app.timers queue: pending attempt(remaining) calls
    notes,          \* notification sink: what the copies reported since the last save
    ev,             \* number of save events so far
    raised,         \* the last handler invocation raised to its caller
    hist            \* what the current (or last) handler invocation saw and did

vars == <<addon, prefs, save_version, clock, root_exists, dir, proj,
          pc, fp, max_v, now, slot, need_rot, rot_v, tasks, timers, notes,
          ev, raised, hist>>

\* ----------------------------------------------------------------- helpers
FpA == "/proj/scene.blend"

Remove(f, k) == [x \in (DOMAIN f) \ {k} |-> f[x]]

Put(f, k, v) == [x \in (DOMAIN f) \cup {k} |-> IF x = k THEN v ELSE f[x]]

Exists(f, k) == k \in DOMAIN f

Max(a, b) == IF a >= b THEN a ELSE b

\* _hash_name: <base>_<first 8 hex digits of sha1(abspath)>
HashName(path) == IF path = FpA THEN "scene_5f2a91c3" ELSE "other_0b7d44e8"

\* _ver: the file name of slot v; a name is <fam>_<label><n>.blend<tail>
Ver(prefix, v) ==
    [fam   |-> prefix,
     label |-> IF v = 1 THEN "latest" ELSE "prev",
     n     |-> IF v = 1 THEN 0 ELSE v - 1,
     tail  |-> ""]

\* The documented slot files of a family, and the other files of the directory.
SlotNames(prefix) == { Ver(prefix, v) : v \in 1..TopIdx }

\* <prefix>_prev<TopIdx-1>.blend1: Blender's own backup of a slot file that
\* was opened and saved in place.
StrayName == [fam |-> HashName(FpA), label |-> "prev", n |-> TopIdx - 1, tail |-> "1"]

\* A slot file of another source file's family.
OtherName == Ver(HashName("/proj/other.blend"), TopIdx)

Names == SlotNames(HashName(FpA)) \cup {StrayName, OtherName}

\* ------------------------------------------------------------- _thresholds
\* An extension beyond slot 5 that forgets the base term prev4_minutes.
Thresholds_NoBase(p, mv) ==
    [v \in { i \in 1..5 : i <= mv } \cup (IF p[4] > 0 THEN 6..mv ELSE {}) |->
        IF v = 1 THEN 0
        ELSE IF v <= 5 THEN p[v - 1] * 60
        ELSE (p[4] * (v - 5)) * 60]

\* src/__init__.py: base list cut at max_v, extended beyond slot 5.
Thresholds_v1_3(p, mv) ==
    [v \in { i \in 1..5 : i <= mv } \cup (IF p[4] > 0 THEN 6..mv ELSE {}) |->
        IF v = 1 THEN 0
        ELSE IF v <= 5 THEN p[v - 1] * 60
        ELSE (p[4] + p[4] * (v - 5)) * 60]

\* src/save_versions_redirector.py: keys 1..5 always, extended beyond slot 5.
Thresholds_v1_1(p, mv) ==
    [v \in (1..5) \cup (IF p[4] > 0 THEN 6..mv ELSE {}) |->
        IF v = 1 THEN 0
        ELSE IF v <= 5 THEN p[v - 1] * 60
        ELSE (p[4] + p[4] * (v - 5)) * 60]

Thresholds(a, p, mv) ==
    IF a = "v1_3" THEN Thresholds_v1_3(p, mv) ELSE Thresholds_v1_1(p, mv)

\* dict.get(k, default)
Get(d, k, default) == IF k \in DOMAIN d THEN d[k] ELSE default

\* --------------------------------------------------------------- _find_slot
\* An overwrite test that lets every existing slot through.
Eligible_Always(thresh, t, mtime) == TRUE

\* An overwrite test that needs the age to exceed the threshold.
Eligible_Strict(thresh, t, mtime) == thresh = 0 \/ t - mtime > thresh

\* The overwrite test of one existing slot.
Eligible(thresh, t, mtime) == thresh = 0 \/ t - mtime >= thresh

RECURSIVE FindSlotFrom(_, _, _, _, _, _)
FindSlotFrom(v, prefix, d, mv, thr, t) ==
    IF v > mv THEN [slot |-> 0, rot |-> FALSE]
    ELSE IF ~Exists(d, Ver(prefix, v)) THEN [slot |-> v, rot |-> FALSE]
    ELSE IF Eligible(Get(thr, v, 0), t, d[Ver(prefix, v)].mtime)
         THEN [slot |-> v, rot |-> TRUE]
    ELSE FindSlotFrom(v + 1, prefix, d, mv, thr, t)

FindSlot(prefix, d, mv, thr, t) == FindSlotFrom(2, prefix, d, mv, thr, t)

\* ------------------------------------------------------------------- purge
\* pat.match(f): the pattern is anchored at the start of the name only.
PatMatch(prefix, name) == name.fam = prefix /\ name.label \in {"latest", "prev"}

\* idx = 1 if m.group(1) == "latest" else int(m.group(2)) + 1
PatIdx(name) == IF name.label = "latest" THEN 1 ELSE name.n + 1

Purged(prefix, d, mv) ==
    [x \in { y \in DOMAIN d : ~(PatMatch(prefix, y) /\ PatIdx(y) > mv) } |-> d[x]]

\* ------------------------------------------------------------------ _rotate
\* lines 88-90: the overflow slot is removed when it exists
RemoveOverflow(prefix, d, mv) ==
    IF Exists(d, Ver(prefix, mv)) THEN Remove(d, Ver(prefix, mv)) ELSE d

\* lines 92-95: shutil.move(slot v, slot v + 1) when slot v exists
MoveStep(prefix, d, v) ==
    IF Exists(d, Ver(prefix, v))
    THEN Put(Remove(d, Ver(prefix, v)), Ver(prefix, v + 1), d[Ver(prefix, v)])
    ELSE d

\* The loop stopping one slot early: range(max_v - 1, start, -1).
InRange_StopsEarly(v, start) == v > start

\* range(max_v - 1, start - 1, -1): the loop runs while v >= start
InRange(v, start) == v >= start

\* -------------------------------------------------------------------- init
Empty == [x \in {} |-> 0]

\* Files of earlier sessions, run with save_version = MaxSaveVersion: snapshot
\* -v in the file numbered v, written at time 0.
OldNames == { Ver(HashName(FpA), v) : v \in 1..MaxSaveVersion } \cup {StrayName, OtherName}

OldDir == [x \in OldNames |-> [content |-> 0 - PatIdx(x), mtime |-> 0]]

\* prev1_minutes .. prev4_minutes; the slots beyond prev2 share prev2's setting
PrefsChoices == { p \in [1..4 -> MinuteChoices] : p[3] = p[2] /\ p[4] = p[2] }

NoLocals == [fp |-> "", max_v |-> 0, now |-> 0, slot |-> 0, need_rot |-> FALSE,
             rot_v |-> 0]

NoHist == [handled |-> FALSE, bak |-> 0, max_v |-> 0, last_max |-> MaxSaveVersion,
           slot |-> 0, protected |-> {}, issued |-> {}, cleaned |-> FALSE,
           pre |-> Empty]

Init ==
    /\ addon \in {"v1_3", "v1_1"}
    /\ prefs \in PrefsChoices
    /\ save_version = MaxSaveVersion
    /\ clock = 0
    /\ \/ root_exists = FALSE /\ dir = Empty
       \/ root_exists = TRUE /\ dir = OldDir
    /\ proj = [x \in {"fp"} |-> [content |-> 0, mtime |-> 0]]
    /\ pc = "idle"
    /\ fp = NoLocals.fp
    /\ max_v = NoLocals.max_v
    /\ now = NoLocals.now
    /\ slot = NoLocals.slot
    /\ need_rot = NoLocals.need_rot
    /\ rot_v = NoLocals.rot_v
    /\ tasks = {}
    /\ timers = <<>>
    /\ notes = {}
    /\ ev = 0
    /\ raised = FALSE
    /\ hist = NoHist

locals == <<fp, max_v, now, slot, need_rot, rot_v>>
config == <<addon, prefs, save_version>>

\* The handler returns: its frame is gone.
Return ==
    /\ pc' = "idle"
    /\ fp' = NoLocals.fp
    /\ max_v' = NoLocals.max_v
    /\ now' = NoLocals.now
    /\ slot' = NoLocals.slot
    /\ need_rot' = NoLocals.need_rot
    /\ rot_v' = NoLocals.rot_v

\* ------------------------------------------------------------- environment
\* A minute passes (the main thread is idle).
Tick ==
    /\ pc = "idle"
    /\ clock < MaxTicks * 60
    /\ clock' = clock + 60
    /\ UNCHANGED <<config, root_exists, dir, proj, pc, locals, tasks, timers,
                   notes, ev, raised, hist>>

\* The user changes Blender's "Save Versions" preference.
SetSaveVersion ==
    /\ pc = "idle"
    /\ \E n \in 0..MaxSaveVersion : n # save_version /\ save_version' = n
    /\ UNCHANGED <<addon, prefs, clock, root_exists, dir, proj, pc, locals,
                   tasks, timers, notes, ev, raised, hist>>

\* Blender saves: the previous .blend is renamed to .blend1 (when backups are
\* made), the new .blend is written, and the save_post handlers are called.
SaveEvent ==
    /\ pc = "idle"
    /\ ev < MaxEvents
    /\ Cardinality(tasks) <= MaxPending
    /\ \E path \in {"", FpA}, mk \in BOOLEAN :
        /\ fp' = path
        /\ proj' = IF path = "" THEN proj
                   ELSE LET kept == IF mk /\ Exists(proj, "fp")
                                    THEN Put(proj, "fp1", proj["fp"]) ELSE proj
                        IN Put(kept, "fp", [content |-> ev + 1, mtime |-> clock])
    /\ ev' = ev + 1
    /\ pc' = "entry"
    /\ raised' = FALSE
    /\ hist' = [NoHist EXCEPT !.last_max = IF hist.handled THEN hist.max_v
                                            ELSE hist.last_max]
    /\ notes' = {}
    /\ UNCHANGED <<config, clock, root_exists, dir, max_v, now, slot, need_rot,
                   rot_v, tasks, timers>>

\* ------------------------------------------------------ save_versions_post
prefix == HashName(fp)

\* The handler without its test of the file path.
EarlyReturn_NoPathTest(path, p) == ~Exists(p, "fp1")

\* lines 146 and 151: the conditions of the two early returns
EarlyReturn(path, p) == path = "" \/ ~Exists(p, "fp1")

\* lines 145-152
Entry ==
    /\ pc = "entry"
    /\ IF EarlyReturn(fp, proj)
       THEN Return /\ hist' = hist
       ELSE /\ pc' = "setup"
            /\ hist' = [hist EXCEPT !.handled = TRUE, !.bak = proj["fp1"].content]
            /\ UNCHANGED locals
    /\ UNCHANGED <<config, clock, root_exists, dir, proj, tasks, timers, notes,
                   ev, raised>>

\* Slot v holds a file that is within its non-zero threshold at time t.
Protected(d, v, t) ==
    /\ Exists(d, Ver(HashName(FpA), v))
    /\ v >= 2
    /\ prefs[IF v <= 5 THEN v - 1 ELSE 4] > 0
    /\ t - d[Ver(HashName(FpA), v)].mtime
         < (IF v <= 5 THEN prefs[v - 1] ELSE prefs[4] * (1 + (v - 5))) * 60

\* lines 154-160: max_v, os.makedirs(root, exist_ok=True), now
Setup ==
    /\ pc = "setup"
    /\ max_v' = Max(save_version, 1)
    /\ root_exists' = TRUE
    /\ now' = clock
    /\ pc' = "find"
    /\ hist' = [hist EXCEPT
                  !.max_v = Max(save_version, 1),
                  !.protected = { dir[Ver(prefix, v)].content :
                                    v \in { w \in 2..Max(save_version, 1) :
                                              Protected(dir, w, clock) } }]
    /\ UNCHANGED <<config, clock, dir, proj, fp, slot, need_rot, rot_v, tasks,
                   timers, notes, ev, raised>>

\* line 163: slot, need_rot = _find_slot(...)
Find ==
    /\ pc = "find"
    /\ LET r == FindSlot(prefix, dir, max_v, Thresholds(addon, prefs, max_v), now)
       IN /\ slot' = r.slot
          /\ need_rot' = r.rot
          /\ pc' = IF r.slot = 0 THEN "copy_latest"
                   ELSE IF r.rot THEN "rot_remove" ELSE "copy_slot"
          /\ hist' = [hist EXCEPT !.slot = r.slot]
    /\ UNCHANGED <<config, clock, root_exists, dir, proj, fp, max_v, now, rot_v,
                   tasks, timers, notes, ev, raised>>

\* A _rotate that returns after removing the overflow slot, its loop not run.
RotRemove_NoLoop ==
    /\ pc = "rot_remove"
    /\ dir' = RemoveOverflow(prefix, dir, max_v)
    /\ rot_v' = max_v - 1
    /\ pc' = "copy_slot"
    /\ UNCHANGED <<config, clock, root_exists, proj, fp, max_v, now, slot,
                   need_rot, tasks, timers, notes, ev, raised, hist>>

\* _rotate, lines 88-90
RotRemove ==
    /\ pc = "rot_remove"
    /\ dir' = RemoveOverflow(prefix, dir, max_v)
    /\ rot_v' = max_v - 1
    /\ pc' = IF InRange(max_v - 1, slot) THEN "rot_move" ELSE "copy_slot"
    /\ UNCHANGED <<config, clock, root_exists, proj, fp, max_v, now, slot,
                   need_rot, tasks, timers, notes, ev, raised, hist>>

\* _rotate, lines 91-95: one iteration of the descending loop
RotMove ==
    /\ pc = "rot_move"
    /\ dir' = MoveStep(prefix, dir, rot_v)
    /\ rot_v' = rot_v - 1
    /\ pc' = IF InRange(rot_v - 1, slot) THEN "rot_move" ELSE "copy_slot"
    /\ UNCHANGED <<config, clock, root_exists, proj, fp, max_v, now, slot,
                   need_rot, tasks, timers, notes, ev, raised, hist>>

\* _copy_async: a daemon thread is started
NewTask(dst) == [ev |-> ev, dst |-> dst, stage |-> "copyfile"]

\* line 167: _copy_async(src_bak, _ver(root, prefix, slot))
CopySlot ==
    /\ pc = "copy_slot"
    /\ tasks' = tasks \cup {NewTask(Ver(prefix, slot))}
    /\ pc' = "copy_latest"
    /\ hist' = [hist EXCEPT !.issued = @ \cup {Ver(prefix, slot)}]
    /\ UNCHANGED <<config, clock, root_exists, dir, proj, locals, timers, notes,
                   ev, raised>>

\* line 170: _copy_async(src_bak, _ver(root, prefix, 1))
CopyLatest ==
    /\ pc = "copy_latest"
    /\ tasks' = tasks \cup {NewTask(Ver(prefix, 1))}
    /\ pc' = "purge"
    /\ hist' = [hist EXCEPT !.issued = @ \cup {Ver(prefix, 1)}]
    /\ UNCHANGED <<config, clock, root_exists, dir, proj, locals, timers, notes,
                   ev, raised>>

\* lines 173-183: files of the family beyond max_v are removed
Purge ==
    /\ pc = "purge"
    /\ dir' = Purged(prefix, dir, max_v)
    /\ pc' = "cleanup"
    /\ UNCHANGED <<config, clock, root_exists, proj, locals, tasks, timers,
                   notes, ev, raised, hist>>

\* _safe_remove(path, retries=5, delay=2.0)
Retries == 5

\* src/__init__.py line 186: _safe_remove(src_bak) registers a timer
Cleanup_v1_3 ==
    /\ pc = "cleanup"
    /\ addon = "v1_3"
    /\ timers' = Append(timers, Retries)
    /\ Return
    /\ hist' = [hist EXCEPT !.cleaned = TRUE]
    /\ UNCHANGED <<config, clock, root_exists, dir, proj, tasks, notes, ev,
                   raised>>

\* src/save_versions_redirector.py lines 168-171: os.remove(src_bak)
Cleanup_v1_1 ==
    /\ pc = "cleanup"
    /\ addon = "v1_1"
    /\ proj' = Remove(proj, "fp1")
    /\ Return
    /\ hist' = [hist EXCEPT !.cleaned = TRUE]
    /\ UNCHANGED <<config, clock, root_exists, dir, tasks, timers, notes, ev,
                   raised>>

\* ------------------------------------------------------------ copy threads
Note(t, ok) == [ev |-> t.ev, dst |-> t.dst, ok |-> ok]

\* What reaches the notification sink when a copy ends.  Release 1.3.0 hands
\* the timer queue a lambda; the failure lambda reads the except clause's
\* variable e, which Python unbinds when the clause ends, so it shows its
\* message only if it runs before the thread has left the clause.
Reports(a, t, ok) ==
    IF ok \/ a = "v1_1" THEN {{Note(t, ok)}} ELSE {{Note(t, ok)}, {}}

\* A copyfile that opens (and so empties) the destination before it finds the
\* source missing.
CopyFile_Truncates ==
    /\ \E t \in tasks :
        /\ t.stage = "copyfile"
        /\ IF Exists(proj, "fp1")
           THEN /\ dir' = Put(dir, t.dst, [content |-> proj["fp1"].content,
                                           mtime |-> clock])
                /\ tasks' = (tasks \ {t}) \cup {[t EXCEPT !.stage = "copystat"]}
                /\ notes' = notes
           ELSE /\ dir' = Put(dir, t.dst, [content |-> 0 - TopIdx - 1,
                                           mtime |-> clock])
                /\ tasks' = tasks \ {t}
                /\ \E r \in Reports(addon, t, FALSE) : notes' = notes \cup r
    /\ UNCHANGED <<config, clock, root_exists, proj, pc, locals, timers, ev,
                   raised, hist>>

\* shutil.copy2, first half: copyfile(src, dst) writes the bytes
CopyFile ==
    /\ \E t \in tasks :
        /\ t.stage = "copyfile"
        /\ IF Exists(proj, "fp1")
           THEN /\ dir' = Put(dir, t.dst, [content |-> proj["fp1"].content,
                                           mtime |-> clock])
                /\ tasks' = (tasks \ {t}) \cup {[t EXCEPT !.stage = "copystat"]}
                /\ notes' = notes
           ELSE /\ dir' = dir
                /\ tasks' = tasks \ {t}
                /\ \E r \in Reports(addon, t, FALSE) : notes' = notes \cup r
    /\ UNCHANGED <<config, clock, root_exists, proj, pc, locals, timers, ev,
                   raised, hist>>

\* shutil.copy2, second half: copystat(src, dst) copies the times
CopyStat ==
    /\ \E t \in tasks :
        /\ t.stage = "copystat"
        /\ IF Exists(proj, "fp1") /\ Exists(dir, t.dst)
           THEN /\ dir' = [dir EXCEPT ![t.dst].mtime = proj["fp1"].mtime]
                /\ \E r \in Reports(addon, t, TRUE) : notes' = notes \cup r
           ELSE /\ dir' = dir
                /\ \E r \in Reports(addon, t, FALSE) : notes' = notes \cup r
        /\ tasks' = tasks \ {t}
    /\ UNCHANGED <<config, clock, root_exists, proj, pc, locals, timers, ev,
                   raised, hist>>

\* ------------------------------------------------------------------ timers
\* _safe_remove.attempt(remaining), run by Blender's timer queue
Attempt ==
    /\ pc = "idle"
    /\ timers # <<>>
    /\ proj' = Remove(proj, "fp1")
    /\ timers' = Tail(timers)
    /\ UNCHANGED <<config, clock, root_exists, dir, pc, locals, tasks, notes,
                   ev, raised, hist>>

\* A failed attempt that registers another one also when remaining = 0.
AttemptFails_OneMore ==
    /\ pc = "idle"
    /\ timers # <<>>
    /\ Exists(proj, "fp1")
    /\ timers' = IF Head(timers) >= 0
                 THEN Append(Tail(timers), Head(timers) - 1)
                 ELSE Tail(timers)
    /\ UNCHANGED <<config, clock, root_exists, dir, proj, pc, locals, tasks,
                   notes, ev, raised, hist>>

\* attempt(remaining), lines 131-136: os.remove raises (the file is in use);
\* the attempt registers attempt(remaining - 1) while remaining > 0
AttemptFails ==
    /\ pc = "idle"
    /\ timers # <<>>
    /\ Exists(proj, "fp1")
    /\ timers' = IF Head(timers) > 0
                 THEN Append(Tail(timers), Head(timers) - 1)
                 ELSE Tail(timers)
    /\ UNCHANGED <<config, clock, root_exists, dir, proj, pc, locals, tasks,
                   notes, ev, raised, hist>>

\* ----------------------------------------------------------- specification
Next ==
    \/ Tick
    \/ SetSaveVersion
    \/ SaveEvent
    \/ Entry
    \/ Setup
    \/ Find
    \/ RotRemove
    \/ RotMove
    \/ CopySlot
    \/ CopyLatest
    \/ Purge
    \/ Cleanup_v1_3
    \/ Cleanup_v1_1
    \/ CopyFile
    \/ CopyStat
    \/ Attempt

Spec == Init /\ [][Next]_vars


\* ------------------------------------------------- synchronous-path faults
\* A file-system call of the handler raises OSError.  Only the purge's
\* os.remove is inside a try block; everything else propagates to the caller.
Raise ==
    /\ Return
    /\ raised' = TRUE
    /\ UNCHANGED <<config, clock, root_exists, dir, proj, tasks, timers, notes,
                   ev, hist>>

\* line 156: os.makedirs raises
SetupRaises == pc = "setup" /\ Raise

\* line 105: os.path.getmtime raises on an existing slot with a threshold
FindRaises ==
    /\ pc = "find"
    /\ \E v \in 2..max_v :
          /\ Exists(dir, Ver(prefix, v))
          /\ Get(Thresholds(addon, prefs, max_v), v, 0) # 0
    /\ Raise

\* line 90: os.remove(overflow) raises
RotRemoveRaises == pc = "rot_remove" /\ Exists(dir, Ver(prefix, max_v)) /\ Raise

\* line 95: shutil.move raises
RotMoveRaises == pc = "rot_move" /\ Exists(dir, Ver(prefix, rot_v)) /\ Raise

\* line 174: os.listdir raises
PurgeRaises == pc = "purge" /\ Raise

\* lines 180-183: some os.remove of the purge raise and are swallowed
PurgeSwallows ==
    /\ pc = "purge"
    /\ \E kept \in SUBSET ((DOMAIN dir) \ (DOMAIN Purged(prefix, dir, max_v))) :
          /\ kept # {}
          /\ dir' = [x \in (DOMAIN Purged(prefix, dir, max_v)) \cup kept |-> dir[x]]
    /\ pc' = "cleanup"
    /\ UNCHANGED <<config, clock, root_exists, proj, locals, tasks, timers,
                   notes, ev, raised, hist>>

\* The add-on under one configuration at one instant, with failing calls.
NextFaults ==
    \/ SaveEvent
    \/ Entry
    \/ Setup
    \/ Find
    \/ RotRemove
    \/ RotMove
    \/ CopySlot
    \/ CopyLatest
    \/ Purge
    \/ Cleanup_v1_3
    \/ Cleanup_v1_1
    \/ CopyFile
    \/ CopyStat
    \/ Attempt
    \/ SetupRaises
    \/ FindRaises
    \/ RotRemoveRaises
    \/ RotMoveRaises
    \/ PurgeRaises
    \/ PurgeSwallows
    \/ AttemptFails

SpecFaults == Init /\ [][NextFaults]_vars

\* ----------------------------------------------------- _rotate in isolation
\* _rotate entered with any occupancy of the slots 1..RotTop, any max_v and any
\* occupied start slot; slot k holds snapshot -k written at time k.
InitRotate ==
    /\ addon \in {"v1_3", "v1_1"}
    /\ prefs = [i \in 1..4 |-> 0]
    /\ save_version \in 2..RotTop
    /\ clock = RotTop
    /\ root_exists = TRUE
    /\ \E occ \in SUBSET (1..RotTop) :
          dir = [x \in { Ver(HashName(FpA), k) : k \in occ } |->
                    [content |-> 0 - PatIdx(x), mtime |-> PatIdx(x)]]
    /\ proj = [x \in {"fp", "fp1"} |-> [content |-> 0, mtime |-> 0]]
    /\ pc = "rot_remove"
    /\ fp = FpA
    /\ max_v = save_version
    /\ now = clock
    /\ slot \in 2..max_v
    /\ Exists(dir, Ver(HashName(FpA), slot))
    /\ need_rot = TRUE
    /\ rot_v = 0
    /\ tasks = {}
    /\ timers = <<>>
    /\ notes = {}
    /\ ev = 1
    /\ raised = FALSE
    /\ hist = [NoHist EXCEPT !.handled = TRUE, !.max_v = max_v, !.slot = slot,
                             !.pre = dir]

NextRotate ==
    \/ RotRemove
    \/ RotMove

SpecRotate == InitRotate /\ [][NextRotate]_vars

\* ------------------------------- _thresholds and _find_slot in isolation
\* The handler about to compute max_v, the thresholds and the slot, with any
\* threshold settings, any "Save Versions" value 0..AllocTop, any clock and any
\* occupancy of the historical slots 2..AllocTop (files of the slots 2..5
\* written at time 0, those of the higher slots AllocLead minutes earlier).
InitAlloc ==
    /\ addon \in {"v1_3", "v1_1"}
    /\ prefs \in [1..4 -> AllocMinutes]
    /\ save_version \in 0..AllocTop
    /\ clock \in { 60 * k : k \in 0..AllocClock }
    /\ root_exists = TRUE
    /\ \E occ \in SUBSET (2..AllocTop) :
          dir = [x \in { Ver(HashName(FpA), k) : k \in occ } |->
                    [content |-> 0 - PatIdx(x),
                     mtime |-> IF PatIdx(x) > 5 THEN 0 - 60 * AllocLead ELSE 0]]
    /\ proj = [x \in {"fp", "fp1"} |-> [content |-> 0, mtime |-> 0]]
    /\ pc = "setup"
    /\ fp = FpA
    /\ max_v = NoLocals.max_v
    /\ now = NoLocals.now
    /\ slot = NoLocals.slot
    /\ need_rot = NoLocals.need_rot
    /\ rot_v = NoLocals.rot_v
    /\ tasks = {}
    /\ timers = <<>>
    /\ notes = {}
    /\ ev = 1
    /\ raised = FALSE
    /\ hist = [NoHist EXCEPT !.handled = TRUE]

NextAlloc ==
    \/ Setup
    \/ Find

SpecAlloc == InitAlloc /\ [][NextAlloc]_vars

\* ------------------------------------------------ the handler run twice
\* Blender has just saved /proj/scene.blend at time clock, leaving the backup
\* of the earlier save (written at time 0), and calls the handler.
InitTwice ==
    /\ addon \in {"v1_3", "v1_1"}
    /\ prefs \in PrefsChoices
    /\ save_version \in 1..MaxSaveVersion
    /\ clock \in { 60 * k : k \in 0..MaxTicks }
    /\ \/ root_exists = FALSE /\ dir = Empty
       \/ root_exists = TRUE /\ dir = OldDir
    /\ proj = [x \in {"fp", "fp1"} |->
                 IF x = "fp" THEN [content |-> 1, mtime |-> clock]
                             ELSE [content |-> 0, mtime |-> 0]]
    /\ pc = "entry"
    /\ fp = FpA
    /\ max_v = NoLocals.max_v
    /\ now = NoLocals.now
    /\ slot = NoLocals.slot
    /\ need_rot = NoLocals.need_rot
    /\ rot_v = NoLocals.rot_v
    /\ tasks = {}
    /\ timers = <<>>
    /\ notes = {}
    /\ ev = 1
    /\ raised = FALSE
    /\ hist = NoHist

\* save_versions_post is called a second time, right after it returned, with
\* the same file path and whatever is left of the same backup.
Rerun ==
    /\ pc = "idle"
    /\ ev = 1
    /\ fp' = FpA
    /\ ev' = ev + 1
    /\ pc' = "entry"
    /\ raised' = FALSE
    /\ hist' = [NoHist EXCEPT !.last_max = IF hist.handled THEN hist.max_v
                                            ELSE hist.last_max]
    /\ notes' = {}
    /\ UNCHANGED <<config, clock, root_exists, dir, proj, max_v, now, slot,
                   need_rot, rot_v, tasks, timers>>

NextTwice ==
    \/ Rerun
    \/ Entry
    \/ Setup
    \/ Find
    \/ RotRemove
    \/ RotMove
    \/ CopySlot
    \/ CopyLatest
    \/ Purge
    \/ Cleanup_v1_3
    \/ Cleanup_v1_1
    \/ CopyFile
    \/ CopyStat
    \/ Attempt

SpecTwice == InitTwice /\ [][NextTwice]_vars

\* ================================================================== claims
FamA == HashName(FpA)

\* The last save event was handled (both early returns passed), the handler
\* has returned and every copy thread that event started has ended.
EventDone == pc = "idle" /\ hist.handled /\ \A t \in tasks : t.ev # ev

\* C1: for every save event whose backup exists, once the handler has returned
\* and the event's copies have ended, slot 1 holds that event's backup.
C1_LatestRefreshed ==
    EventDone =>
        /\ Exists(dir, Ver(FamA, 1))
        /\ dir[Ver(FamA, 1)].content = hist.bak

\* C2: the allocator never selects an existing slot that is within its
\* non-zero threshold, and no copy into a historical slot is written over a
\* file that is within its threshold.
C2_NoProtectedOverwrite ==
    [][ /\ (pc = "find" /\ pc' # "find" /\ slot' # 0)
            => ~Protected(dir, slot', now)
        /\ \A t \in tasks :
            (t.stage = "copyfile" /\ t \notin tasks'
               /\ [t EXCEPT !.stage = "copystat"] \in tasks' /\ PatIdx(t.dst) >= 2)
            => ~Protected(dir, PatIdx(t.dst), clock) ]_vars

\* C3: with MaxSlots unchanged, every historical slot file that was within its
\* non-zero threshold when the event began is still held, with the same
\* content, by some slot 2..MaxSlots after the event.
C3_ProtectedSurvive ==
    (pc = "idle" /\ hist.handled /\ hist.max_v = hist.last_max) =>
        \A c \in hist.protected :
            \E v \in 2..hist.max_v :
                Exists(dir, Ver(FamA, v)) /\ dir[Ver(FamA, v)].content = c

\* C4: after a save event has completed (handler returned, copies ended) no
\* slot file with index > MaxSlots exists for the family.
C4_NoSlotBeyondMax ==
    (EventDone /\ tasks = {}) =>
        \A v \in (hist.max_v + 1)..TopIdx : ~Exists(dir, Ver(FamA, v))

\* C5: _rotate for a chosen slot v moves every occupied slot k of
\* v..MaxSlots-1 to k+1, file unchanged, from the highest index down; no move
\* lands on an occupied slot; afterwards slot v is vacant, the slots below v
\* and every other file are untouched, a missing slot leaves its successor
\* empty, and only the former occupant of slot MaxSlots is lost.
C5_Rotation ==
    [][ /\ (pc = "rot_move" /\ Exists(dir, Ver(FamA, rot_v)))
            => ~Exists(dir, Ver(FamA, rot_v + 1))
        /\ (pc \in {"rot_remove", "rot_move"} /\ pc' = "rot_move")
            => rot_v' \in slot..(max_v - 1)
        /\ (pc = "rot_remove" /\ pc' = "rot_move") => rot_v' = max_v - 1
        /\ (pc = "rot_move" /\ pc' = "rot_move") => rot_v' = rot_v - 1
        /\ (pc \in {"rot_remove", "rot_move"} /\ pc' = "copy_slot")
            => LET pre == hist.pre
                   post == dir'
               IN /\ \A k \in slot..(max_v - 1) :
                        IF Exists(pre, Ver(FamA, k))
                        THEN /\ Exists(post, Ver(FamA, k + 1))
                             /\ post[Ver(FamA, k + 1)] = pre[Ver(FamA, k)]
                        ELSE ~Exists(post, Ver(FamA, k + 1))
                  /\ ~Exists(post, Ver(FamA, slot))
                  /\ \A n \in (DOMAIN pre) \cup (DOMAIN post) :
                        n \notin { Ver(FamA, k) : k \in slot..max_v }
                        => /\ n \in DOMAIN pre
                           /\ n \in DOMAIN post
                           /\ post[n] = pre[n]
                  /\ \A n \in DOMAIN pre :
                        n # Ver(FamA, max_v) => \E m \in DOMAIN post : post[m] = pre[n]
      ]_vars

\* A finished rotation that evicted the overflow slot, moved a file, skipped a
\* missing slot and left a lower slot alone.
C5_Witness ==
    /\ pc = "copy_slot"
    /\ need_rot
    /\ Exists(hist.pre, Ver(FamA, max_v))
    /\ ~Exists(dir, Ver(FamA, slot))
    /\ \E k \in (slot + 1)..(max_v - 1) : ~Exists(hist.pre, Ver(FamA, k))
    /\ \E k \in slot..(max_v - 1) :
          Exists(hist.pre, Ver(FamA, k)) /\ Exists(dir, Ver(FamA, k + 1))
    /\ \E k \in 2..(slot - 1) : Exists(dir, Ver(FamA, k))

\* C6: the handler never raises to its caller, whatever file-system call of
\* its synchronous path fails.
C6_NeverRaises == ~raised

\* C7: an event with a selected slot issues exactly the two copies, the purge
\* and the cleanup follow whatever the copies do, and every copy that has
\* ended has reported its own success or failure.
C7_CopiesIndependent ==
    (pc = "idle" /\ hist.handled /\ ~raised /\ hist.slot # 0) =>
        /\ hist.issued = {Ver(FamA, hist.slot), Ver(FamA, 1)}
        /\ hist.cleaned
        /\ \A d \in hist.issued :
              \/ \E t \in tasks : t.ev = ev /\ t.dst = d
              \/ \E n \in notes : n.ev = ev /\ n.dst = d

\* C8: the backup is not removed while a copy of it is still to be made.
C8_CleanupAfterCopies == \A t \in tasks : Exists(proj, "fp1")

\* C9: no step creates, changes or deletes a file of the directory that is
\* not a slot file of the family, and only Blender's save writes the .blend.
C9_Frame ==
    [][ /\ \A n \in (DOMAIN dir) \ SlotNames(FamA) :
              n \in DOMAIN dir' /\ dir'[n] = dir[n]
        /\ \A n \in (DOMAIN dir') \ (DOMAIN dir) : n \in SlotNames(FamA)
        /\ (pc = "idle" /\ pc' = "entry") \/ proj'["fp"] = proj["fp"] ]_vars

\* C10: when the source path is empty or the backup does not exist, the
\* handler returns at once: directory, project files, threads, timers and
\* notifications are as they were.
C10_NoActionOnEarlyReturn ==
    [][ (pc = "entry" /\ pc' # "entry" /\ (fp = "" \/ ~Exists(proj, "fp1")))
        => /\ pc' = "idle"
           /\ dir' = dir
           /\ root_exists' = root_exists
           /\ proj' = proj
           /\ tasks' = tasks
           /\ timers' = timers
           /\ notes' = notes ]_vars

\* A save of a named file that left no backup has been handled, and nothing
\* was started.
C10_Witness ==
    /\ pc = "idle"
    /\ ev >= 1
    /\ ~hist.handled
    /\ proj["fp"].content = ev
    /\ ~Exists(proj, "fp1")
    /\ tasks = {}

\* Every slot 1..mv of the family exists in d and every historical one is
\* within its non-zero threshold at time t.
AllHeld(d, mv, t) ==
    /\ \A v \in 1..mv : Exists(d, Ver(FamA, v))
    /\ \A v \in 2..mv : Protected(d, v, t)

\* The historical slot files 2..mv of d.
Historical(d, mv) ==
    [x \in { y \in DOMAIN d : \E v \in 2..mv : y = Ver(FamA, v) } |-> d[x]]

\* C11: when all slots 1..MaxSlots exist and every historical slot is within
\* its non-zero threshold, _find_slot reports no slot, the handler goes
\* straight to the slot-1 copy (no rotation), its remaining steps leave every
\* historical slot file as it is, and the only copy the event issues is the
\* one into slot 1.
C11_OnlyLatestRefreshed ==
    [][ /\ (pc = "find" /\ pc' # "find" /\ AllHeld(dir, max_v, now))
            => /\ slot' = 0
               /\ ~need_rot'
               /\ pc' = "copy_latest"
               /\ dir' = dir
        /\ (pc \in {"copy_latest", "purge", "cleanup"} /\ slot = 0 /\ pc' # pc)
            => /\ Historical(dir', max_v) = Historical(dir, max_v)
               /\ Exists(dir, Ver(FamA, 1)) => Exists(dir', Ver(FamA, 1))
               /\ tasks' \ tasks \subseteq {NewTask(Ver(FamA, 1))}
               /\ hist'.issued \subseteq {Ver(FamA, 1)}
      ]_vars

\* An event that found all MaxSaveVersion slots held has ended: slot 1 holds
\* its backup and the only copy it issued was the one into slot 1.
C11_Witness ==
    /\ EventDone
    /\ hist.max_v = MaxSaveVersion
    /\ hist.slot = 0
    /\ hist.issued = {Ver(FamA, 1)}
    /\ AllHeld(dir, hist.max_v, clock)
    /\ dir[Ver(FamA, 1)].content = hist.bak

\* The first save event of a family whose versions directory started empty
\* has been handled with MaxSlots >= 2, and its copies have ended.
FirstEventDone ==
    /\ EventDone
    /\ ev = 1
    /\ ~Exists(dir, OtherName)
    /\ hist.max_v >= 2

\* C12: for a family with no slot files and MaxSlots >= 2, the first event
\* selects slot 2 without rotation and, once its copies have ended, exactly
\* slot 1 and slot 2 exist, both holding the event's backup.
C12_FirstEvent ==
    FirstEventDone =>
        /\ hist.slot = 2
        /\ hist.issued = {Ver(FamA, 1), Ver(FamA, 2)}
        /\ \A v \in 1..2 :
              Exists(dir, Ver(FamA, v)) /\ dir[Ver(FamA, v)].content = hist.bak
        /\ \A v \in 3..TopIdx : ~Exists(dir, Ver(FamA, v))

\* What slot 1 of the family holds in d: its content, if the file exists.
Latest(d) == { d[x].content : x \in {Ver(FamA, 1)} \cap DOMAIN d }

\* The first of the two handler runs has returned and its copies have ended.
FirstSettled == (ev = 2 \/ pc = "idle") /\ \A t \in tasks : t.ev # 1

\* C13: the handler run twice in immediate succession on the same backup:
\* what slot 1 holds once the first run and its copies have ended is what it
\* holds ever after, through the second run and its copies; and the second
\* run, when it passes the early returns, reaches its cleanup and returns
\* without raising, also when _find_slot found no slot.
C13_Idempotent ==
    [][ /\ FirstSettled => Latest(dir') = Latest(dir)
        /\ (ev = 2 /\ pc = "find" /\ pc' # "find" /\ slot' = 0)
            => pc' = "copy_latest"
        /\ (ev = 2 /\ hist.handled /\ pc # "idle" /\ pc' = "idle")
            => hist'.cleaned /\ ~raised'
      ]_vars

\* The second run found no eligible historical slot, copied the backup into
\* slot 1 again and has ended; slot 1 holds the backup.
C13_Witness ==
    /\ ev = 2
    /\ EventDone
    /\ tasks = {}
    /\ hist.max_v >= 2
    /\ hist.slot = 0
    /\ hist.cleaned
    /\ Note([ev |-> 2, dst |-> Ver(FamA, 1)], TRUE) \in notes
    /\ Latest(dir) = {hist.bak}

\* The historical slots 2..mv of d that are absent or not within a non-zero
\* threshold at time t.
Fit(d, mv, t) == { v \in 2..mv : ~Protected(d, v, t) }

\* C14: _find_slot is first-fit: it returns the lowest index of 2..MaxSlots
\* whose file is absent (no rotation) or present with threshold 0 or age >=
\* threshold (rotation), and None exactly when there is no such index.
C14_FirstFit ==
    [][ (pc = "find" /\ pc' # "find")
        => IF Fit(dir, max_v, now) = {}
           THEN slot' = 0 /\ ~need_rot'
           ELSE /\ slot' \in Fit(dir, max_v, now)
                /\ \A w \in Fit(dir, max_v, now) : slot' <= w
                /\ need_rot' = Exists(dir, Ver(FamA, slot'))
      ]_vars

\* _find_slot passed two slots that were within their thresholds and chose a
\* third whose age had just reached its threshold, leaving a higher absent
\* slot alone.
C14_Witness ==
    /\ pc = "rot_remove"
    /\ slot = 4
    /\ need_rot
    /\ Protected(dir, 2, now)
    /\ Protected(dir, 3, now)
    /\ prefs[3] > 0
    /\ now - dir[Ver(FamA, 4)].mtime = prefs[3] * 60
    /\ \E w \in 5..max_v : ~Exists(dir, Ver(FamA, w))

\* The threshold table of the documented rule, in seconds (K = 5).
TableRule(p, v) ==
    IF v = 1 THEN 0
    ELSE IF v <= 5 THEN p[v - 1] * 60
    ELSE IF p[4] = 0 THEN 0
    ELSE p[4] * (1 + (v - 5)) * 60

\* C18: for every MaxSlots >= 1 the threshold _find_slot uses for each index
\* 1..MaxSlots (thresholds.get(v, 0)) is the one of the documented rule, and
\* the slot it returns is decided by those values.
C18_ThresholdTable ==
    [][ (pc = "find" /\ pc' # "find")
        => /\ max_v >= 1
           /\ \A v \in 1..max_v :
                 Get(Thresholds(addon, prefs, max_v), v, 0) = TableRule(prefs, v)
           /\ \A v \in 2..max_v :
                 Exists(dir, Ver(FamA, v)) =>
                    /\ (slot' = 0 \/ v < slot')
                          => /\ TableRule(prefs, v) > 0
                             /\ now - dir[Ver(FamA, v)].mtime < TableRule(prefs, v)
                    /\ v = slot'
                          => \/ TableRule(prefs, v) = 0
                             \/ now - dir[Ver(FamA, v)].mtime >= TableRule(prefs, v)
      ]_vars

\* _find_slot passed the slots 2..5, all within their thresholds, and chose
\* the extrapolated slot 6 (> K) exactly when its age reached
\* prev4_minutes x 2 x 60.
C18_Witness ==
    /\ pc = "rot_remove"
    /\ slot = 6
    /\ max_v = 7
    /\ \A v \in 2..5 : Protected(dir, v, now)
    /\ now - dir[Ver(FamA, 6)].mtime = prefs[4] * 2 * 60

\* C15: a copy that completes while its event's handler is still running
\* (so that the clock still shows the event's now) leaves its slot file with
\* mtime = now.
C15_MtimeIsNow ==
    [][ \A t \in tasks :
          (/\ pc # "idle"
           /\ t.ev = ev
           /\ t.stage = "copystat"
           /\ t \notin tasks'
           /\ Exists(proj, "fp1")
           /\ Exists(dir, t.dst))
          => dir'[t.dst].mtime = now
      ]_vars

\* C16: within one event the copy into the chosen slot is issued only when
\* _rotate, if it was needed, has run to its end (the loop variable has gone
\* below the chosen slot), no step of _rotate follows a copy the event has
\* issued, and the slot-1 copy is issued right after, without waiting for
\* the other copy to end.
C16_RotateBeforeCopy ==
    [][ /\ \A t \in tasks' \ tasks :
              (t.stage = "copyfile" /\ PatIdx(t.dst) >= 2)
              => /\ pc = "copy_slot"
                 /\ t = NewTask(Ver(FamA, slot))
                 /\ need_rot => rot_v = slot - 1
        /\ (pc' \in {"rot_remove", "rot_move"} \/ pc \in {"rot_remove", "rot_move"})
              => hist'.issued = {} /\ \A t \in tasks' : t.ev # ev'
        /\ (pc = "copy_slot" /\ pc' # pc) => pc' = "copy_latest"
        /\ (pc = "copy_latest" /\ pc' # pc)
              => tasks' = tasks \cup {NewTask(Ver(FamA, 1))}
      ]_vars

\* After a rotation that moved files, the copy into the chosen slot and the
\* slot-1 copy of the same event are both under way.
C16_Witness ==
    /\ pc = "purge"
    /\ need_rot
    /\ slot < max_v
    /\ rot_v = slot - 1
    /\ ~Exists(dir, Ver(FamA, slot))
    /\ NewTask(Ver(FamA, slot)) \in tasks
    /\ NewTask(Ver(FamA, 1)) \in tasks

\* C17: whenever the main thread is idle and no copy is running, any two
\* occupied historical slots i < j of the family hold snapshots in age order:
\* the one in slot j was taken no later than the one in slot i.
C17_ProgressivelyOlder ==
    (pc = "idle" /\ tasks = {}) =>
        \A i, j \in 2..TopIdx :
            (i < j /\ Exists(dir, Ver(FamA, i)) /\ Exists(dir, Ver(FamA, j)))
            => dir[Ver(FamA, j)].content <= dir[Ver(FamA, i)].content

\* C19: _safe_remove only registers a timer (the handler itself never touches
\* the backup in release 1.3.0); every attempt is a timer call; an attempt
\* that does not fail leaves the file absent and registers nothing; a failed
\* attempt with remaining > 0 registers exactly one attempt with remaining - 1;
\* a failed attempt with remaining = 0 registers nothing and raises nothing.
\* The counts run Retries, Retries - 1, .., 0: at most Retries + 1 attempts.
C19_BoundedRetry ==
    [][ /\ \A i \in 1..Len(timers') : timers'[i] \in 0..Retries
        /\ (addon = "v1_3" /\ Exists(proj, "fp1") /\ ~Exists(proj', "fp1"))
              => pc = "idle" /\ timers # <<>> /\ timers' = Tail(timers)
        /\ timers' # timers
              => \/ /\ pc = "cleanup"
                    /\ timers' = Append(timers, Retries)
                    /\ proj' = proj
                 \/ /\ pc = "idle"
                    /\ timers # <<>>
                    /\ raised' = raised
                    /\ \/ /\ ~Exists(proj', "fp1")
                          /\ timers' = Tail(timers)
                       \/ /\ proj' = proj
                          /\ Exists(proj, "fp1")
                          /\ Head(timers) > 0
                          /\ timers' = Append(Tail(timers), Head(timers) - 1)
                       \/ /\ proj' = proj
                          /\ Exists(proj, "fp1")
                          /\ Head(timers) = 0
                          /\ timers' = Tail(timers)
      ]_vars

\* Every attempt of the last event's cleanup has failed: no timer is left,
\* the backup is still there and nothing was raised.
C19_Witness ==
    /\ addon = "v1_3"
    /\ pc = "idle"
    /\ hist.cleaned
    /\ timers = <<>>
    /\ Exists(proj, "fp1")
    /\ ~raised

\* A copy of an earlier event that has not completed and whose destination
\* is slot v of the family.
EarlierCopyInto(v) == \E t \in tasks : t.ev < ev /\ t.dst = Ver(FamA, v)

\* C20: with handler invocations that never overlap, whenever a later event's
\* _find_slot examines a slot, _rotate removes or moves one, the purge scans
\* the slots beyond MaxSlots, or one of the later event's copies writes a
\* slot file, no copy of an earlier event into that slot is still running.
C20_EarlierCopiesDone ==
    [][ /\ (pc = "find" /\ pc' # "find")
            => \A v \in 2..(IF slot' = 0 THEN max_v ELSE slot') :
                  ~EarlierCopyInto(v)
        /\ (pc = "rot_remove" /\ pc' # "rot_remove") => ~EarlierCopyInto(max_v)
        /\ (pc = "rot_move" /\ pc' # "rot_move")
            => ~EarlierCopyInto(rot_v) /\ ~EarlierCopyInto(rot_v + 1)
        /\ (pc = "purge" /\ pc' # "purge")
            => \A v \in (max_v + 1)..TopIdx : ~EarlierCopyInto(v)
        /\ \A t \in tasks :
              (t.ev = ev /\ t.stage = "copyfile" /\ t \notin tasks')
              => ~EarlierCopyInto(PatIdx(t.dst))
      ]_vars

============================================================================
